---- MODULE Spec2Model ----
(***************************************************************************)
(* phpipam-legacy-migrator: migration of VLANs, subnets and IP addresses   *)
(* from a legacy PHPIPAM database to a new PHPIPAM through its API.        *)
(*                                                                         *)
(* Strings are sequences of byte values (ASCII codes), so that Go's        *)
(* byte-wise string comparison and the decimal <-> dotted-quad conversions *)
(* are computed, not assumed.  A uint32 is a pair <<hi, lo>> of 16-bit     *)
(* halves (value hi * 65536 + lo).                                         *)
(***************************************************************************)
EXTENDS Integers, Sequences, FiniteSets, TLC

VARIABLES
    src,      \* the legacy database: [vlans, subnets, addresses] row sequences
    tgt,      \* the new PHPIPAM: [vlans, subnets, addresses] created records
    pc,       \* position of main()
    idx,      \* index of the loop iteration the current phase is at
    lans,     \* []vlans.VLAN returned by fetchVLANs
    nets,     \* []subnets.Subnet returned by fetchSubnets / sorted in addSubnets
    addrs,    \* []addresses.Address returned by fetchAddresses
    calls,    \* history: the API requests issued so far, in order
    failed,   \* a logrus.Fatalf has been logged
    arg,      \* input of the pure function under check (function specs only)
    res       \* its result (function specs only)

vars == <<src, tgt, pc, idx, lans, nets, addrs, calls, failed, arg, res>>

-----------------------------------------------------------------------------
(* Bytes and strings *)

ChDot == 46

ChSlash == 47

ChZero == 48

IsDigit(c) == c >= ChZero /\ c <= ChZero + 9

\* fmt's %d verb for a non-negative int.
RECURSIVE FormatInt(_)
FormatInt(n) ==
    IF n < 0 THEN <<45>> \o FormatInt(0 - n)
    ELSE IF n < 10 THEN <<ChZero + n>>
    ELSE FormatInt(n \div 10) \o <<ChZero + (n % 10)>>

\* Go's < on strings: byte-wise lexicographic, a proper prefix is smaller.
RECURSIVE StrLess(_, _)
StrLess(a, b) ==
    IF b = <<>> THEN FALSE
    ELSE IF a = <<>> THEN TRUE
    ELSE IF Head(a) # Head(b) THEN Head(a) < Head(b)
    ELSE StrLess(Tail(a), Tail(b))

\* Position of the first occurrence of byte c in s, 0 when absent.
RECURSIVE IndexByte(_, _, _)
IndexByte(s, c, k) ==
    IF k > Len(s) THEN 0
    ELSE IF s[k] = c THEN k
    ELSE IndexByte(s, c, k + 1)

-----------------------------------------------------------------------------
(* AddressCodec: decimalIPAddrToString *)

Half == 65536

Err == [err |-> TRUE]

\* strconv.ParseUint(s, 10, 32): every byte must be a decimal digit, the
\* string must not be empty, and the value must not exceed 2^32 - 1.
RECURSIVE ParseUintLoop(_, _, _, _)
ParseUintLoop(s, k, hi, lo) ==
    IF k > Len(s) THEN [err |-> FALSE, hi |-> hi, lo |-> lo]
    ELSE IF ~IsDigit(s[k]) THEN Err
    ELSE LET lo10 == lo * 10 + (s[k] - ChZero)
             hi10 == hi * 10 + (lo10 \div Half)
         IN  IF hi10 >= Half THEN Err
             ELSE ParseUintLoop(s, k + 1, hi10, lo10 % Half)

\* A plausible slip: the value is parsed in 64 bits and truncated by the
\* uint32() conversion instead of being range-checked.
ParseUintTruncating(s) ==
    LET RECURSIVE Loop(_, _, _)
        Loop(k, hi, lo) ==
            IF k > Len(s) THEN [err |-> FALSE, hi |-> hi, lo |-> lo]
            ELSE IF ~IsDigit(s[k]) THEN Err
            ELSE LET lo10 == lo * 10 + (s[k] - ChZero)
                     hi10 == hi * 10 + (lo10 \div Half)
                 IN  Loop(k + 1, hi10 % Half, lo10 % Half)
    IN  IF s = <<>> THEN Err ELSE Loop(1, 0, 0)

ParseUint(s) ==
    IF s = <<>> THEN Err ELSE ParseUintLoop(s, 1, 0, 0)

\* binary.BigEndian.PutUint32: the four octets, most significant first.
PutUint32(hi, lo) == <<hi \div 256, hi % 256, lo \div 256, lo % 256>>

\* net.IP.String() of a 4-byte address.
IPString(ip) ==
    FormatInt(ip[1]) \o <<ChDot>> \o FormatInt(ip[2]) \o <<ChDot>>
        \o FormatInt(ip[3]) \o <<ChDot>> \o FormatInt(ip[4])

decimalIPAddrToString(addr) ==
    LET d == ParseUint(addr)
    IN  IF d.err THEN [err |-> TRUE, str |-> <<>>]
        ELSE [err |-> FALSE, str |-> IPString(PutUint32(d.hi, d.lo))]

-----------------------------------------------------------------------------
(* net.ParseCIDR and net.IPNet.String, as used by ParentSubnetIDForCIDR *)

\* net.parseIPv4: four dot-separated decimal fields, each in 0..255.
RECURSIVE ParseIPv4Loop(_, _, _, _, _)
ParseIPv4Loop(s, k, val, digits, out) ==
    IF k > Len(s) THEN
        IF digits = 0 \/ Len(out) # 3 THEN [err |-> TRUE, ip |-> <<>>]
        ELSE [err |-> FALSE, ip |-> Append(out, val)]
    ELSE IF s[k] = ChDot THEN
        IF digits = 0 \/ Len(out) >= 3 THEN [err |-> TRUE, ip |-> <<>>]
        ELSE ParseIPv4Loop(s, k + 1, 0, 0, Append(out, val))
    ELSE IF IsDigit(s[k]) THEN
        LET v == val * 10 + (s[k] - ChZero)
        IN  IF v > 255 THEN [err |-> TRUE, ip |-> <<>>]
            ELSE ParseIPv4Loop(s, k + 1, v, digits + 1, out)
    ELSE [err |-> TRUE, ip |-> <<>>]

ParseIPv4(s) == ParseIPv4Loop(s, 1, 0, 0, <<>>)

\* net.dtoi on the whole mask field: decimal digits only, not empty.
RECURSIVE DtoiLoop(_, _, _)
DtoiLoop(s, k, n) ==
    IF k > Len(s) THEN [ok |-> k > 1, n |-> n]
    ELSE IF ~IsDigit(s[k]) THEN [ok |-> FALSE, n |-> n]
    ELSE IF n * 10 + (s[k] - ChZero) > 9999 THEN [ok |-> FALSE, n |-> n]
    ELSE DtoiLoop(s, k + 1, n * 10 + (s[k] - ChZero))

Dtoi(s) == DtoiLoop(s, 1, 0)

Pow2(k) == CASE k = 0 -> 1 [] k = 1 -> 2 [] k = 2 -> 4 [] k = 3 -> 8
             [] k = 4 -> 16 [] k = 5 -> 32 [] k = 6 -> 64 [] k = 7 -> 128
             [] OTHER -> 256

\* Number of mask bits that fall into octet i (1..4) of an n-bit mask.
OctetBits(n, i) ==
    LET b == n - 8 * (i - 1)
    IN  IF b < 0 THEN 0 ELSE IF b > 8 THEN 8 ELSE b

\* net.IP.Mask(net.CIDRMask(n, 32)): the network address of ip under mask n.
MaskIP(ip, n) ==
    [i \in 1..4 |-> ip[i] - (ip[i] % Pow2(8 - OctetBits(n, i)))]

\* net.ParseCIDR(s) followed by IPNet.String(): the canonical "network/n".
ParseCIDR(s) ==
    LET i == IndexByte(s, ChSlash, 1)
        ip == ParseIPv4(SubSeq(s, 1, i - 1))
        m == Dtoi(SubSeq(s, i + 1, Len(s)))
    IN  IF i = 0 THEN [err |-> TRUE, str |-> <<>>]
        ELSE IF ip.err \/ ~m.ok \/ m.n > 32 THEN [err |-> TRUE, str |-> <<>>]
        ELSE [err |-> FALSE,
              str |-> IPString(MaskIP(ip.ip, m.n)) \o <<ChSlash>> \o FormatInt(m.n)]

\* fmt.Sprintf("%s/%d", addr, mask)
SprintfCIDR(addr, mask) == addr \o <<ChSlash>> \o FormatInt(mask)

-----------------------------------------------------------------------------
(* The new PHPIPAM, seen through the SDK controllers *)

NoErr == "nil"

ErrNotFound == "Error from API (404): No subnets found"

ErrVLANNotFound == "Error from API (404): Vlans not found"

\* A plausible slip: every error of a lookup is taken for "not found".
ErrTakenForNotFound == "Error from API (404): No subnets found"

ErrOther == "Error from API (500)"

\* Controller.GetSubnetsByCIDR: the subnets registered under exactly this
\* CIDR; the API answers 404 when there is none.  fault: the request fails
\* for another reason (transport, authentication, server error).
GetSubnetsByCIDR(subs, cidr, fault) ==
    LET out == SelectSeq(subs, LAMBDA r : SprintfCIDR(r.SubnetAddress, r.Mask) = cidr)
    IN  IF fault THEN [err |-> ErrOther, out |-> <<>>]
        ELSE IF out = <<>> THEN [err |-> ErrNotFound, out |-> <<>>]
        ELSE [err |-> NoErr, out |-> out]

\* Controller.GetVLANsByNumber
GetVLANsByNumber(vl, n, fault) ==
    LET out == SelectSeq(vl, LAMBDA r : r.Number = n)
    IN  IF fault THEN [err |-> ErrOther, out |-> <<>>]
        ELSE IF out = <<>> THEN [err |-> ErrVLANNotFound, out |-> <<>>]
        ELSE [err |-> NoErr, out |-> out]

\* The identifier PHPIPAM gives the next record of a table (auto-increment).
NextID(table) == Len(table) + 1

\* A plausible slip: the record is accepted but not stored (a dry run).
NotCommitted(table, rec) == table

\* A plausible slip: the record is written over the last one of the table
\* (an update where an insert was meant).
Overwritten(table, rec) ==
    IF table = <<>> THEN <<[rec EXCEPT !.ID = 1]>>
    ELSE [table EXCEPT ![Len(table)] = [rec EXCEPT !.ID = Len(table)]]

\* POST of a record: stored as sent, under a fresh identifier.
Created(table, rec) == Append(table, [rec EXCEPT !.ID = NextID(table)])

-----------------------------------------------------------------------------
(* helper.ParentSubnetIDForCIDR *)

\* "until we get to 8, which is the largest block allocation allowed"
MinParentMask == 8

\* A plausible slip: the search starts at the subnet's own mask.
FirstProbeOwnMask(mask) == mask

\* n := mask - 1
FirstProbe(mask) == mask - 1

\* A plausible slip: the loop runs down to /0.
LoopGuardToZero(n) == n >= 0

\* A plausible slip: an off-by-one that never tries the /8.
LoopGuardAbove8(n) == n > MinParentMask

\* for n >= 8
LoopGuard(n) == n >= MinParentMask

\* The loop, at mask n.  faultAt is the number of the lookup (counted from 1)
\* that fails with an error other than the 404; 0 for none.  Result: the
\* identifier returned (0: none), whether logrus.Fatalf ended the process,
\* and the lookups issued.
RECURSIVE ParentLoop(_, _, _, _, _, _)
ParentLoop(subs, addr, mask, n, faultAt, probes) ==
    IF ~LoopGuard(n) THEN [fatal |-> FALSE, id |-> 0, probes |-> probes]
    ELSE
        LET net == ParseCIDR(SprintfCIDR(addr, n))
        IN  IF net.err THEN [fatal |-> TRUE, id |-> 0, probes |-> probes]
            ELSE
                LET r == GetSubnetsByCIDR(subs, net.str, Len(probes) + 1 = faultAt)
                    log == Append(probes, [cidr |-> net.str, n |-> n])
                IN  CASE r.err = NoErr ->
                           [fatal |-> FALSE, id |-> r.out[1].ID, probes |-> log]
                      [] r.err = ErrNotFound ->
                           ParentLoop(subs, addr, mask, n - 1, faultAt, log)
                      [] OTHER ->
                           [fatal |-> TRUE, id |-> 0, probes |-> log]

ParentSubnetIDForCIDR(subs, addr, mask, faultAt) ==
    ParentLoop(subs, addr, mask, FirstProbe(mask), faultAt, <<>>)

\* Number of lookups ParentSubnetIDForCIDR issues when none of them fails.
NumProbes(subs, addr, mask) ==
    Len(ParentSubnetIDForCIDR(subs, addr, mask, 0).probes)

-----------------------------------------------------------------------------
(* helper.SubnetsSorter and sort.Sort *)

Key(v) == SprintfCIDR(v.SubnetAddress, v.Mask)

\* A plausible slip: only the addresses are compared.
LessByAddress(a, b) == StrLess(a.SubnetAddress, b.SubnetAddress)

\* A plausible slip: <= instead of <.
LessOrEqual(a, b) == ~StrLess(Key(b), Key(a))

\* A plausible slip: the addresses are compared as numbers, octet by octet,
\* and then the masks.
LessNumeric(a, b) ==
    LET x == ParseIPv4(a.SubnetAddress).ip \o <<a.Mask>>
        y == ParseIPv4(b.SubnetAddress).ip \o <<b.Mask>>
    IN  \E k \in 1..5 : x[k] < y[k] /\ \A i \in 1..(k - 1) : x[i] = y[i]

\* SubnetsSorter.Less
Less(a, b) == StrLess(Key(a), Key(b))

\* SubnetsSorter.Swap
Swap(s, i, j) == [s EXCEPT ![i] = s[j], ![j] = s[i]]

\* sort.insertionSort: for i { for j := i; j > a && Less(j, j-1); j-- { Swap } }
RECURSIVE InsertionInner(_, _)
InsertionInner(s, j) ==
    IF j > 1 /\ Less(s[j], s[j - 1]) THEN InsertionInner(Swap(s, j, j - 1), j - 1)
    ELSE s

RECURSIVE InsertionSort(_, _)
InsertionSort(s, i) ==
    IF i > Len(s) THEN s ELSE InsertionSort(InsertionInner(s, i), i + 1)

\* The lists up to this length are sorted without partitioning.
MaxInsertion == 12

ShellGap == 6

\* The pass with gap 6 that sort.Sort of Go up to 1.18 makes before the
\* insertion sort: for i := a + 6; i < b; i++ { if Less(i, i-6) { Swap } }
RECURSIVE ShellPass(_, _)
ShellPass(s, i) ==
    IF i > Len(s) THEN s
    ELSE ShellPass(IF Less(s[i], s[i - ShellGap]) THEN Swap(s, i, i - ShellGap) ELSE s,
                   i + 1)

\* A plausible slip: the list is used as it was read.
NotSorted(data) == {data}

\* sort.Sort(data) for at most 12 elements, as the Go releases implement it:
\* an insertion sort (Go 1.19 and later), preceded by a pass with gap 6 (Go
\* up to 1.18).  The release the program is built with is not fixed by the
\* repository, and sort.Sort is documented as not guaranteed to be stable.
SortSort(data) ==
    IF Len(data) <= MaxInsertion
    THEN {InsertionSort(data, 2), InsertionSort(ShellPass(data, ShellGap + 1), 2)}
    ELSE {out \in {[i \in 1..Len(data) |-> data[p[i]]] : p \in Permutations(1..Len(data))} :
            \A k \in 1..(Len(data) - 1) : ~Less(out[k + 1], out[k])}

-----------------------------------------------------------------------------
(* main: the migration *)

\* A plausible slip: the error is logged and the run goes on.
LogAndContinue(cont) == cont

\* logrus.Fatalf: logs and calls os.Exit(1); cont is where the code would
\* go on if it returned.
Fatalf(cont) == "exited"

\* A plausible slip: the subnets are migrated before the VLANs.
MainSubnetsFirst(p) ==
    CASE p = "connectDB" -> "fetchSubnets"
      [] p = "scanSubnets" -> "addSubnets"
      [] p = "createSubnets" -> "fetchVLANs"
      [] p = "fetchVLANs" -> "addVLANs"
      [] p = "addVLANs" -> "fetchAddresses"
      [] p = "scanAddresses" -> "addAddresses"
      [] p = "addAddresses" -> "done"

\* main: addVLANs(fetchVLANs(db)); addSubnets(fetchSubnets(db));
\* addAddresses(fetchAddresses(db))
MainNext(p) ==
    CASE p = "connectDB" -> "fetchVLANs"
      [] p = "fetchVLANs" -> "addVLANs"
      [] p = "addVLANs" -> "fetchSubnets"
      [] p = "scanSubnets" -> "addSubnets"
      [] p = "createSubnets" -> "fetchAddresses"
      [] p = "scanAddresses" -> "addAddresses"
      [] p = "addAddresses" -> "done"

\* A request: the SDK method, the function of the program that calls it, and
\* the VLAN number, CIDR or address it is about.
Call(by, op, key) == [by |-> by, op |-> op, key |-> key]

\* The process ends in logrus.Fatalf.
Fatal(cont) ==
    /\ failed' = TRUE
    /\ pc' = Fatalf(cont)

ConnectDB ==
    /\ pc = "connectDB"
    /\ \E ok \in BOOLEAN :
          IF ok THEN pc' = MainNext(pc) /\ failed' = failed
          ELSE Fatal(MainNext(pc))
    /\ UNCHANGED <<src, tgt, idx, lans, nets, addrs, calls, arg, res>>

\* fetchVLANs: no API request is made; the rows become []vlans.VLAN.
FetchVLANs ==
    /\ pc = "fetchVLANs"
    /\ \E ok \in BOOLEAN :
          IF ok
          THEN /\ lans' = [i \in 1..Len(src.vlans) |->
                              [ID |-> 0, Name |-> src.vlans[i].name,
                               Number |-> src.vlans[i].number]]
               /\ pc' = MainNext(pc)
               /\ failed' = failed
          ELSE /\ lans' = lans
               /\ Fatal(MainNext(pc))
    /\ idx' = 1
    /\ UNCHANGED <<src, tgt, nets, addrs, calls, arg, res>>

\* One iteration of the loop of addVLANs.
AddVLAN ==
    /\ pc = "addVLANs"
    /\ idx <= Len(lans)
    /\ calls' = Append(calls, Call("addVLANs", "CreateVLAN", FormatInt(lans[idx].Number)))
    /\ \E ok \in BOOLEAN :
          IF ok
          THEN /\ tgt' = [tgt EXCEPT !.vlans = Created(@, lans[idx])]
               /\ UNCHANGED <<pc, failed>>
          ELSE /\ tgt' = tgt
               /\ Fatal(pc)
    /\ idx' = idx + 1
    /\ UNCHANGED <<src, lans, nets, addrs, arg, res>>

AddVLANsReturn ==
    /\ pc = "addVLANs"
    /\ idx > Len(lans)
    /\ pc' = MainNext(pc)
    /\ idx' = 1
    /\ UNCHANGED <<src, tgt, lans, nets, addrs, calls, failed, arg, res>>

\* fetchSubnets: runSQL
FetchSubnets ==
    /\ pc = "fetchSubnets"
    /\ \E ok \in BOOLEAN :
          IF ok THEN pc' = "scanSubnets" /\ failed' = failed
          ELSE Fatal("scanSubnets")
    /\ nets' = <<>>
    /\ idx' = 1
    /\ UNCHANGED <<src, tgt, lans, addrs, calls, arg, res>>

\* vlanIDForNumber
vlanIDForNumber(vl, n, fault) ==
    LET r == GetVLANsByNumber(vl, n, fault)
    IN  [fatal |-> r.err # NoErr,
         id |-> IF r.err = NoErr THEN r.out[1].ID ELSE 0]

\* A plausible slip: the error of the lookup is not checked.
subnetIDForCIDRUnchecked(subs, cidr, fault) == [fatal |-> FALSE, id |-> 0]

\* subnetIDForCIDR
subnetIDForCIDR(subs, cidr, fault) ==
    LET r == GetSubnetsByCIDR(subs, cidr, fault)
    IN  [fatal |-> r.err # NoErr,
         id |-> IF r.err = NoErr THEN r.out[1].ID ELSE 0]

\* One iteration of the rows.Next() loop of fetchSubnets.
ScanSubnetRow ==
    /\ pc = "scanSubnets"
    /\ idx <= Len(src.subnets)
    /\ LET row == src.subnets[idx]
           strAddr == decimalIPAddrToString(row.subnet)
           found(vlanID) == [ID |-> 0, SubnetAddress |-> strAddr.str,
                             Mask |-> row.mask, Description |-> row.description,
                             VLANID |-> vlanID, MasterSubnetID |-> 0]
       IN  IF strAddr.err
           THEN UNCHANGED <<nets, calls, pc, failed>>
           ELSE IF row.number.Int64 # 0
           THEN \E fault \in BOOLEAN :
                  LET v == vlanIDForNumber(tgt.vlans, row.number.Int64, fault)
                  IN  /\ calls' = Append(calls, Call("vlanIDForNumber", "GetVLANsByNumber",
                                                     FormatInt(row.number.Int64)))
                      /\ nets' = Append(nets, found(v.id))
                      /\ IF v.fatal THEN Fatal(pc)
                         ELSE UNCHANGED <<pc, failed>>
           ELSE /\ nets' = Append(nets, found(0))
                /\ UNCHANGED <<calls, pc, failed>>
    /\ idx' = idx + 1
    /\ UNCHANGED <<src, tgt, lans, addrs, arg, res>>

\* fetchSubnets: rows.Err() and return
FetchSubnetsReturn ==
    /\ pc = "scanSubnets"
    /\ idx > Len(src.subnets)
    /\ \E ok \in BOOLEAN :
          IF ok THEN pc' = MainNext(pc) /\ failed' = failed
          ELSE Fatal(MainNext(pc))
    /\ idx' = 1
    /\ UNCHANGED <<src, tgt, lans, nets, addrs, calls, arg, res>>

\* addSubnets: data := helper.SubnetsSorter(nets); sort.Sort(data)
SortSubnets ==
    /\ pc = "addSubnets"
    /\ \E out \in SortSort(nets) : nets' = out
    /\ pc' = "createSubnets"
    /\ idx' = 1
    /\ UNCHANGED <<src, tgt, lans, addrs, calls, failed, arg, res>>

\* One iteration of the loop of addSubnets.
CreateSubnet ==
    /\ pc = "createSubnets"
    /\ idx <= Len(nets)
    /\ LET v == nets[idx]
       IN  \E faultAt \in 0..NumProbes(tgt.subnets, v.SubnetAddress, v.Mask) :
             LET p == ParentSubnetIDForCIDR(tgt.subnets, v.SubnetAddress, v.Mask, faultAt)
                 lookups == [k \in 1..Len(p.probes) |->
                               Call("ParentSubnetIDForCIDR", "GetSubnetsByCIDR",
                                    p.probes[k].cidr)]
                 w == IF p.id # 0 THEN [v EXCEPT !.MasterSubnetID = p.id] ELSE v
             IN  IF p.fatal
                 THEN /\ calls' = calls \o lookups
                      /\ tgt' = tgt
                      /\ Fatal(pc)
                 ELSE /\ calls' = (calls \o lookups)
                                      \o <<Call("addSubnets", "CreateSubnet", Key(w))>>
                      /\ \E ok \in BOOLEAN :
                            IF ok
                            THEN /\ tgt' = [tgt EXCEPT !.subnets = Created(@, w)]
                                 /\ UNCHANGED <<pc, failed>>
                            ELSE /\ tgt' = tgt
                                 /\ Fatal(pc)
    /\ idx' = idx + 1
    /\ UNCHANGED <<src, lans, nets, addrs, arg, res>>

AddSubnetsReturn ==
    /\ pc = "createSubnets"
    /\ idx > Len(nets)
    /\ pc' = MainNext(pc)
    /\ idx' = 1
    /\ UNCHANGED <<src, tgt, lans, nets, addrs, calls, failed, arg, res>>

\* fetchAddresses: runSQL
FetchAddresses ==
    /\ pc = "fetchAddresses"
    /\ \E ok \in BOOLEAN :
          IF ok THEN pc' = "scanAddresses" /\ failed' = failed
          ELSE Fatal("scanAddresses")
    /\ addrs' = <<>>
    /\ idx' = 1
    /\ UNCHANGED <<src, tgt, lans, nets, calls, arg, res>>

\* One iteration of the rows.Next() loop of fetchAddresses.  A row of an
\* address without subnet (the left join yields NULL) does not Scan.
ScanAddressRow ==
    /\ pc = "scanAddresses"
    /\ idx <= Len(src.addresses)
    /\ LET row == src.addresses[idx]
           ipString == decimalIPAddrToString(row.ip_addr)
           subnetString == decimalIPAddrToString(row.subnet)
           cidr == SprintfCIDR(subnetString.str, row.mask)
       IN  IF row.subnetNull
           THEN /\ Fatal(pc)
                /\ UNCHANGED <<addrs, calls>>
           ELSE IF ipString.err \/ subnetString.err
           THEN UNCHANGED <<addrs, calls, pc, failed>>
           ELSE \E fault \in BOOLEAN :
                  LET r == subnetIDForCIDR(tgt.subnets, cidr, fault)
                  IN  /\ calls' = Append(calls, Call("subnetIDForCIDR", "GetSubnetsByCIDR", cidr))
                      /\ addrs' = Append(addrs,
                            [ID |-> 0, SubnetID |-> r.id, IPAddress |-> ipString.str,
                             Description |-> row.description])
                      /\ IF r.fatal THEN Fatal(pc)
                         ELSE UNCHANGED <<pc, failed>>
    /\ idx' = idx + 1
    /\ UNCHANGED <<src, tgt, lans, nets, arg, res>>

\* fetchAddresses: rows.Err() and return
FetchAddressesReturn ==
    /\ pc = "scanAddresses"
    /\ idx > Len(src.addresses)
    /\ \E ok \in BOOLEAN :
          IF ok THEN pc' = MainNext(pc) /\ failed' = failed
          ELSE Fatal(MainNext(pc))
    /\ idx' = 1
    /\ UNCHANGED <<src, tgt, lans, nets, addrs, calls, arg, res>>

\* One iteration of the loop of addAddresses.
AddAddress ==
    /\ pc = "addAddresses"
    /\ idx <= Len(addrs)
    /\ calls' = Append(calls, Call("addAddresses", "CreateAddress", addrs[idx].IPAddress))
    /\ \E ok \in BOOLEAN :
          IF ok
          THEN /\ tgt' = [tgt EXCEPT !.addresses = Created(@, addrs[idx])]
               /\ UNCHANGED <<pc, failed>>
          ELSE /\ tgt' = tgt
               /\ Fatal(pc)
    /\ idx' = idx + 1
    /\ UNCHANGED <<src, lans, nets, addrs, arg, res>>

\* main: "Migration completed."
AddAddressesReturn ==
    /\ pc = "addAddresses"
    /\ idx > Len(addrs)
    /\ pc' = MainNext(pc)
    /\ idx' = 1
    /\ UNCHANGED <<src, tgt, lans, nets, addrs, calls, failed, arg, res>>

-----------------------------------------------------------------------------
(* The legacy databases and target installations the migration is run on *)

MaxVlans == 1

MaxSubnets == 3

MaxAddresses == 1

\* The string of the decimal digits ds.
Dec(ds) == [i \in 1..Len(ds) |-> ChZero + ds[i]]

Null == [Int64 |-> 0, Valid |-> FALSE]

Number(n) == [Int64 |-> n, Valid |-> TRUE]

Dec_10_0_0_0 == Dec(<<1, 6, 7, 7, 7, 2, 1, 6, 0>>)

Dec_10_0_0_1 == Dec(<<1, 6, 7, 7, 7, 2, 1, 6, 1>>)

Dec_10_64_0_0 == Dec(<<1, 7, 1, 9, 6, 6, 4, 6, 4>>)

Dec_10_64_0_5 == Dec(<<1, 7, 1, 9, 6, 6, 4, 6, 9>>)

\* An IPv6 address as the legacy database stores it: more than 32 bits.
Dec_IPv6 == Dec(<<4, 2, 5, 4, 0, 7, 6, 6, 4, 1, 1, 2, 8>>)

VlanRows == {[name |-> "office", number |-> 10]}

\* The sequences of at most n elements of S.
Seqs(S, n) == UNION {[1..k -> S] : k \in 0..n}

\* 10.0.0.0/8, 10.0.0.0/10, 10.64.0.0/10 (on a VLAN numbered 0),
\* 10.64.0.0/12 (on VLAN 10) and an IPv6 subnet.
SubnetRows ==
    {[subnet |-> Dec_10_0_0_0, mask |-> 8, description |-> "a", number |-> Null],
     [subnet |-> Dec_10_0_0_0, mask |-> 10, description |-> "a", number |-> Null],
     [subnet |-> Dec_10_64_0_0, mask |-> 10, description |-> "a", number |-> Number(0)],
     [subnet |-> Dec_10_64_0_0, mask |-> 12, description |-> "a", number |-> Number(10)],
     [subnet |-> Dec_IPv6, mask |-> 64, description |-> "a", number |-> Null]}

\* 10.64.0.5 in 10.64.0.0/12, an IPv6 address, and an address whose subnet
\* is missing.
AddressRows ==
    {[ip_addr |-> Dec_10_64_0_5, description |-> "a", subnet |-> Dec_10_64_0_0,
      mask |-> 12, subnetNull |-> FALSE],
     [ip_addr |-> Dec_IPv6, description |-> "a", subnet |-> Dec_IPv6,
      mask |-> 64, subnetNull |-> FALSE],
     [ip_addr |-> Dec_10_0_0_1, description |-> "a", subnet |-> <<>>,
      mask |-> 0, subnetNull |-> TRUE]}

\* The sequences of at most n different rows of S.
Rows(S, n) ==
    {q \in UNION {[1..k -> S] : k \in 0..n} :
        \A i, j \in 1..Len(q) : i # j => q[i] # q[j]}

\* A target that is not empty: it holds 10.0.0.0/8 from before the run.
PreExisting ==
    <<[ID |-> 1, SubnetAddress |-> IPString(<<10, 0, 0, 0>>), Mask |-> 8,
       Description |-> "pre", VLANID |-> 0, MasterSubnetID |-> 0]>>

Init ==
    /\ src \in [vlans : Seqs(VlanRows, MaxVlans),
                 subnets : Rows(SubnetRows, MaxSubnets),
                 addresses : Rows(AddressRows, MaxAddresses)]
    /\ tgt \in [vlans : {<<>>}, subnets : {<<>>, PreExisting}, addresses : {<<>>}]
    /\ pc = "connectDB"
    /\ idx = 1
    /\ lans = <<>>
    /\ nets = <<>>
    /\ addrs = <<>>
    /\ calls = <<>>
    /\ failed = FALSE
    /\ arg = <<>>
    /\ res = <<>>

Next ==
    \/ ConnectDB
    \/ FetchVLANs
    \/ AddVLAN
    \/ AddVLANsReturn
    \/ FetchSubnets
    \/ ScanSubnetRow
    \/ FetchSubnetsReturn
    \/ SortSubnets
    \/ CreateSubnet
    \/ AddSubnetsReturn
    \/ FetchAddresses
    \/ ScanAddressRow
    \/ FetchAddressesReturn
    \/ AddAddress
    \/ AddAddressesReturn

Spec == Init /\ [][Next]_vars

-----------------------------------------------------------------------------
(* decimalIPAddrToString on its own *)

MaxDigits == 3

\* Decimal strings of up to MaxDigits digits, strings around 2^32 - 1 =
\* 4294967295 and beyond, strings with leading zeros, and strings that are no
\* decimal numbers ("", "-1", "+5", "12a", "1.2.3.4", " 5", "1_0").
DecodeInputs ==
    {Dec(ds) : ds \in Seqs({0, 2, 5, 9}, MaxDigits)}
    \cup {Dec(<<4, 2, 9, 4, 9, 6, 7, 2, 9, d>>) : d \in 0..9}
    \cup {Dec(<<4, 2, 9, 4, 9, 6, d, 2, 9, 5>>) : d \in 0..9}
    \cup {Dec(<<d, 2, 9, 4, 9, 6, 7, 2, 9, 5>>) : d \in 0..9}
    \cup {Dec(<<0, 0, 4, 2, 9, 4, 9, 6, 7, 2, 9, d>>) : d \in 0..9}
    \cup {Dec(<<1, 0, 0, 0, 0, 0, 0, 0, 0, 0, d>>) : d \in 0..9}
    \cup {Dec_10_0_0_0, Dec_10_64_0_5, Dec_IPv6,
          Dec(<<1, 6, 7, 7, 7, 2, 1, 5, 9>>), Dec(<<1, 6, 7, 7, 7, 2, 1, 5>>),
          Dec(<<6, 5, 5, 3, 5>>), Dec(<<6, 5, 5, 3, 6>>), Dec(<<2, 5, 6>>),
          Dec(<<1, 6, 7, 7, 7, 2, 1, 6>>), Dec(<<1, 6, 7, 7, 7, 2, 1, 7>>)}
    \cup {<<45, 49>>, <<43, 53>>, <<49, 50, 97>>, <<32, 53>>, <<49, 95, 48>>,
          <<49, 46, 50, 46, 51, 46, 52>>}

InitDecode ==
    /\ pc = "decode"
    /\ arg \in DecodeInputs
    /\ res = <<>>
    /\ src = <<>> /\ tgt = <<>> /\ idx = 1 /\ lans = <<>> /\ nets = <<>>
    /\ addrs = <<>> /\ calls = <<>> /\ failed = FALSE

Decode ==
    /\ pc = "decode"
    /\ res' = decimalIPAddrToString(arg)
    /\ pc' = "decoded"
    /\ UNCHANGED <<src, tgt, idx, lans, nets, addrs, calls, failed, arg>>

SpecDecode == InitDecode /\ [][Decode]_vars

-----------------------------------------------------------------------------
(* Properties of decimalIPAddrToString *)

\* a <= b in byte-wise lexicographic order, stated by the first difference.
LexLeq(a, b) ==
    \/ Len(a) <= Len(b) /\ \A i \in 1..Len(a) : a[i] = b[i]
    \/ \E k \in 1..Len(a) :
          /\ k <= Len(b)
          /\ \A i \in 1..(k - 1) : a[i] = b[i]
          /\ a[k] < b[k]

IsDecimal(s) == s # <<>> /\ \A i \in 1..Len(s) : IsDigit(s[i])

\* s without its leading zeros (one digit is kept).
RECURSIVE StripZeros(_)
StripZeros(s) ==
    IF Len(s) > 1 /\ Head(s) = ChZero THEN StripZeros(Tail(s)) ELSE s

MaxUint32Dec == Dec(<<4, 2, 9, 4, 9, 6, 7, 2, 9, 5>>)

\* s is a decimal string denoting an integer in [0, 2^32 - 1].
DenotesUint32(s) ==
    /\ IsDecimal(s)
    /\ \/ Len(StripZeros(s)) < Len(MaxUint32Dec)
       \/ /\ Len(StripZeros(s)) = Len(MaxUint32Dec)
          /\ LexLeq(StripZeros(s), MaxUint32Dec)

\* The decimal digits of the uint32 <<hi, lo>>.
RECURSIVE ToDecimal(_, _)
ToDecimal(hi, lo) ==
    LET t == (hi % 10) * Half + lo
    IN  IF hi = 0 /\ lo < 10 THEN <<ChZero + lo>>
        ELSE ToDecimal(hi \div 10, t \div 10) \o <<ChZero + (t % 10)>>

\* The 32-bit integer of a dotted quad, as decimal digits.
EncodeQuad(str) ==
    LET q == ParseIPv4(str).ip
    IN  ToDecimal(q[1] * 256 + q[2], q[3] * 256 + q[4])

\* C10: decimalIPAddrToString succeeds exactly on the decimal strings that
\* denote an integer in [0, 2^32 - 1]; its result then is a dotted quad whose
\* 32-bit big-endian value is that integer; on every other string it fails
\* and yields no address.
DecodeRoundTrips ==
    pc = "decoded" =>
        /\ res.err <=> ~DenotesUint32(arg)
        /\ res.err => res.str = <<>>
        /\ ~res.err =>
              /\ ~ParseIPv4(res.str).err
              /\ EncodeQuad(res.str) = StripZeros(arg)

\* 4294967295 decodes to 255.255.255.255.
DecodeMaxWitness ==
    /\ pc = "decoded"
    /\ arg = MaxUint32Dec
    /\ ~res.err
    /\ res.str = IPString(<<255, 255, 255, 255>>)

-----------------------------------------------------------------------------
(* ParentSubnetIDForCIDR on its own *)

MaxRegistered == 3

MaxFaultAt == 2

Block(ip, mask, desc) ==
    [ID |-> 0, SubnetAddress |-> IPString(ip), Mask |-> mask, Description |-> desc,
     VLANID |-> 0, MasterSubnetID |-> 0]

\* Blocks a PHPIPAM may hold: 10.0.0.0/8 (also a second time), 10.10.0.0/16,
\* 10.10.2.0/23, 10.10.2.0/24, 172.16.0.0/12, and 10.0.0.0/7, wider than /8.
Blocks ==
    <<Block(<<10, 0, 0, 0>>, 8, "a"),
      Block(<<10, 10, 0, 0>>, 16, "a"),
      Block(<<10, 10, 2, 0>>, 24, "a"),
      Block(<<10, 10, 2, 0>>, 23, "a"),
      Block(<<172, 16, 0, 0>>, 12, "a"),
      Block(<<10, 0, 0, 0>>, 7, "a"),
      Block(<<10, 0, 0, 0>>, 8, "b")>>

\* The subnets table holding the blocks numbered in I; a block's identifier
\* is its number.
RECURSIVE Registered(_, _)
Registered(I, k) ==
    IF k > Len(Blocks) THEN <<>>
    ELSE (IF k \in I THEN <<[Blocks[k] EXCEPT !.ID = k]>> ELSE <<>>)
            \o Registered(I, k + 1)

QueryAddresses ==
    {IPString(<<10, 10, 2, 0>>), IPString(<<10, 10, 3, 77>>),
     IPString(<<172, 16, 1, 0>>), IPString(<<11, 0, 0, 0>>)}

\* The last one is no IPv4 mask: the /33 tried first for it does not parse.
QueryMasks == {0, 7, 8, 9, 13, 16, 17, 24, 25, 32, 34}

InitResolve ==
    /\ pc = "resolve"
    /\ \E I \in {J \in SUBSET (1..Len(Blocks)) : Cardinality(J) <= MaxRegistered} :
          arg \in [subs : {Registered(I, 1)}, addr : QueryAddresses,
                   mask : QueryMasks, faultAt : 0..MaxFaultAt]
    /\ res = <<>>
    /\ src = <<>> /\ tgt = <<>> /\ idx = 1 /\ lans = <<>> /\ nets = <<>>
    /\ addrs = <<>> /\ calls = <<>> /\ failed = FALSE

Resolve ==
    /\ pc = "resolve"
    /\ res' = ParentSubnetIDForCIDR(arg.subs, arg.addr, arg.mask, arg.faultAt)
    /\ pc' = "resolved"
    /\ UNCHANGED <<src, tgt, idx, lans, nets, addrs, calls, failed, arg>>

SpecResolve == InitResolve /\ [][Resolve]_vars

-----------------------------------------------------------------------------
(* Properties of ParentSubnetIDForCIDR *)

\* Bit i (1 the most significant, 32 the least) of the address ip.
Bit(ip, i) == (ip[((i - 1) \div 8) + 1] \div Pow2(7 - ((i - 1) % 8))) % 2

\* b is the block addr/n: its mask is n, its first n bits are those of addr
\* and its other bits are zero.
IsBlockOf(b, addr, n) ==
    LET bi == ParseIPv4(b.SubnetAddress).ip
        ai == ParseIPv4(addr).ip
    IN  /\ b.Mask = n
        /\ \A i \in 1..32 : Bit(bi, i) = IF i <= n THEN Bit(ai, i) ELSE 0

\* The positions in subs of the registered ancestors of addr/mask: the blocks
\* addr/n with n in [8, mask - 1].
Ancestors(subs, addr, mask) ==
    {k \in 1..Len(subs) :
        /\ subs[k].Mask >= 8
        /\ subs[k].Mask <= mask - 1
        /\ IsBlockOf(subs[k], addr, subs[k].Mask)}

\* C2: whenever ParentSubnetIDForCIDR returns, it returns the identifier of
\* a registered block addr/n with the largest n in [8, mask - 1], and it
\* returns 0 exactly when no such block is registered.
ResolvesNarrowestAncestor ==
    pc = "resolved" /\ ~res.fatal =>
        LET anc == Ancestors(arg.subs, arg.addr, arg.mask)
        IN  /\ res.id = 0 <=> anc = {}
            /\ anc # {} =>
                  \E k \in anc :
                      /\ \A j \in anc : arg.subs[j].Mask <= arg.subs[k].Mask
                      /\ res.id = arg.subs[k].ID

\* With 10.0.0.0/8 (1) and 10.10.0.0/16 (2) registered, the parent of
\* 10.10.2.0/24 is 2.
ResolveExampleWitness ==
    /\ pc = "resolved"
    /\ arg.subs = Registered({1, 2}, 1)
    /\ arg.addr = IPString(<<10, 10, 2, 0>>)
    /\ arg.mask = 24
    /\ ~res.fatal
    /\ res.id = 2

\* The mask a lookup was made for, read from the CIDR that was sent.
ProbedMask(cidr) == Dtoi(SubSeq(cidr, IndexByte(cidr, ChSlash, 1) + 1, Len(cidr))).n

\* C3: the k-th lookup is made for mask - k, which is at least 8 and smaller
\* than the subnet's mask; for a subnet of mask <= 8 no lookup is made and
\* "not found" (0) is returned.
ProbesWithinRange ==
    pc = "resolved" =>
        /\ \A k \in 1..Len(res.probes) :
              /\ ProbedMask(res.probes[k].cidr) = arg.mask - k
              /\ ProbedMask(res.probes[k].cidr) >= 8
              /\ ProbedMask(res.probes[k].cidr) < arg.mask
        /\ arg.mask <= 8 => res.probes = <<>> /\ ~res.fatal /\ res.id = 0

\* 11.0.0.0/8 lies in the registered 10.0.0.0/7: no lookup, no parent.
NoProbeWitness ==
    /\ pc = "resolved"
    /\ arg.mask = 8
    /\ arg.addr = IPString(<<11, 0, 0, 0>>)
    /\ arg.subs = Registered({6}, 1)
    /\ res.probes = <<>>
    /\ res.id = 0

-----------------------------------------------------------------------------
(* sort.Sort over SubnetsSorter on its own *)

MaxSortLen == 3

Net(ip, mask, desc) == Block(ip, mask, desc)

\* 10.0.0.0/8 (two records), 10.0.0.0/16, 10.9.0.0/16, 10.10.0.0/16 and
\* 172.16.0.0/12.
SortRecords ==
    {Net(<<10, 0, 0, 0>>, 8, "a"), Net(<<10, 0, 0, 0>>, 8, "b"),
     Net(<<10, 0, 0, 0>>, 16, "a"), Net(<<10, 9, 0, 0>>, 16, "a"),
     Net(<<10, 10, 0, 0>>, 16, "a"), Net(<<172, 16, 0, 0>>, 12, "a")}

\* The input and the expected order of TestSubnetsSorter.
TestIn ==
    <<Net(<<10, 10, 3, 0>>, 24, ""), Net(<<10, 10, 1, 0>>, 24, ""),
      Net(<<10, 0, 0, 0>>, 8, ""), Net(<<172, 16, 1, 0>>, 24, ""),
      Net(<<10, 10, 4, 0>>, 24, ""), Net(<<172, 16, 0, 0>>, 12, "")>>

TestExpected ==
    <<Net(<<10, 0, 0, 0>>, 8, ""), Net(<<10, 10, 1, 0>>, 24, ""),
      Net(<<10, 10, 3, 0>>, 24, ""), Net(<<10, 10, 4, 0>>, 24, ""),
      Net(<<172, 16, 0, 0>>, 12, ""), Net(<<172, 16, 1, 0>>, 24, "")>>

\* Seven records, two of them with the key 172.16.0.0/12.
SevenIn ==
    <<Net(<<172, 16, 0, 0>>, 12, "a"), Net(<<172, 16, 0, 0>>, 12, "b"),
      Net(<<10, 10, 3, 0>>, 24, ""), Net(<<10, 10, 1, 0>>, 24, ""),
      Net(<<172, 16, 1, 0>>, 24, ""), Net(<<10, 10, 4, 0>>, 24, ""),
      Net(<<10, 0, 0, 0>>, 8, "")>>

\* The first six of them.
SixIn == SubSeq(SevenIn, 1, 6)

InitSort ==
    /\ pc = "sort"
    /\ arg \in Rows(SortRecords, MaxSortLen) \cup {TestIn, SixIn, SevenIn}
    /\ res = <<>>
    /\ src = <<>> /\ tgt = <<>> /\ idx = 1 /\ lans = <<>> /\ nets = <<>>
    /\ addrs = <<>> /\ calls = <<>> /\ failed = FALSE

Sort ==
    /\ pc = "sort"
    /\ res' \in SortSort(arg)
    /\ pc' = "sorted"
    /\ UNCHANGED <<src, tgt, idx, lans, nets, addrs, calls, failed, arg>>

SpecSort == InitSort /\ [][Sort]_vars

-----------------------------------------------------------------------------
(* Properties of the ordering *)

\* C4: the result of the sort is a rearrangement of its input in
\* non-decreasing byte-wise lexicographic order of "<address>/<mask>", and
\* the list of TestSubnetsSorter comes out in the expected order.
SortOrdersByKey ==
    pc = "sorted" =>
        /\ Len(res) = Len(arg)
        /\ \A r \in {arg[i] : i \in 1..Len(arg)} \cup {res[i] : i \in 1..Len(res)} :
              Cardinality({i \in 1..Len(arg) : arg[i] = r})
                  = Cardinality({i \in 1..Len(res) : res[i] = r})
        /\ \A i, j \in 1..Len(res) :
              i < j => LexLeq(SprintfCIDR(res[i].SubnetAddress, res[i].Mask),
                              SprintfCIDR(res[j].SubnetAddress, res[j].Mask))
        /\ arg = TestIn => res = TestExpected

SortTestWitness ==
    /\ pc = "sorted"
    /\ arg = TestIn
    /\ res = TestExpected

\* The position of record r in s.
Pos(s, r) == CHOOSE k \in 1..Len(s) : s[k] = r

\* Records i < j of the input with equal keys are in this order in the result.
KeepsOrder(in, out) ==
    \A i, j \in 1..Len(in) :
        i < j /\ Key(in[i]) = Key(in[j]) => Pos(out, in[i]) < Pos(out, in[j])

\* C5 as claimed: for every list the sort is stable.
SortIsStable == pc = "sorted" => KeepsOrder(arg, res)

\* C5 as amended: records with equal keys are all kept, and they keep their
\* input order in every list of at most 6 records (the gap of the first
\* pass); in a longer list they may change places.
SortIsStableUpToGap ==
    pc = "sorted" =>
        /\ \A i \in 1..Len(arg) : \E k \in 1..Len(res) : res[k] = arg[i]
        /\ Len(arg) <= ShellGap => KeepsOrder(arg, res)

\* Two records of 10.0.0.0/8 are sorted and stay in their order.
StableShortWitness ==
    /\ pc = "sorted"
    /\ Len(arg) = 3
    /\ \E i, j \in 1..3 : i < j /\ arg[i] # arg[j] /\ Key(arg[i]) = Key(arg[j])
    /\ res # arg
    /\ KeepsOrder(arg, res)

-----------------------------------------------------------------------------
(* Properties of the migration *)

Elems(s) == {s[i] : i \in 1..Len(s)}

IsPrefix(s, t) == Len(s) <= Len(t) /\ SubSeq(t, 1, Len(s)) = s

\* The subnets this run created (the others were in the target before).
Migrated == {v \in Elems(tgt.subnets) : v.Description # "pre"}

\* The blocks of set B, of mask 8 or more, that strictly contain subnet v.
Containing(B, v) ==
    {t \in B : t.Mask >= 8 /\ t.Mask < v.Mask /\ IsBlockOf(t, v.SubnetAddress, t.Mask)}

\* C1: after a run that completes on an empty target, every migrated subnet
\* that lies in another migrated subnet has the narrowest such subnet as its
\* master.
CascadesProperly ==
    pc = "done" /\ Migrated = Elems(tgt.subnets) =>
        \A v \in Migrated :
            Containing(Migrated, v) # {} =>
                \E t \in Containing(Migrated, v) :
                    /\ \A u \in Containing(Migrated, v) : u.Mask <= t.Mask
                    /\ v.MasterSubnetID = t.ID

\* C7: a created subnet with a master refers to a block of the target with
\* a smaller mask, of at least 8, whose prefix contains the subnet's address;
\* the master is neither the subnet itself nor a block of the same CIDR.
ParentIsStrictlyWider ==
    \A v \in Elems(tgt.subnets) :
        v.MasterSubnetID # 0 =>
            \E t \in Elems(tgt.subnets) :
                /\ t.ID = v.MasterSubnetID
                /\ t \in Containing(Elems(tgt.subnets), v)
                /\ t.ID # v.ID
                /\ Key(t) # Key(v)

\* A second 10.0.0.0/8 was created beside the one the target had, and a
\* subnet below them got one of them as master.
ParentWitness ==
    \E v, d, t \in Elems(tgt.subnets) :
        /\ d.ID # t.ID /\ Key(d) = Key(t)
        /\ v.MasterSubnetID = t.ID
        /\ v.Mask > t.Mask

\* C6: once a fatal error has occurred the target does not change and no
\* request is made any more; the request that fails changes nothing either;
\* and no record of the target is ever removed or altered.
NoChangeAfterFatal ==
    [][/\ failed => tgt' = tgt /\ calls' = calls
       /\ failed' => tgt' = tgt
       /\ IsPrefix(tgt.vlans, tgt'.vlans)
       /\ IsPrefix(tgt.subnets, tgt'.subnets)
       /\ IsPrefix(tgt.addresses, tgt'.addresses)]_vars

\* The run has ended in a fatal error after a VLAN and a subnet were created;
\* both are still there.
FatalAfterCreatesWitness ==
    /\ failed
    /\ pc = "exited"
    /\ tgt.vlans # <<>>
    /\ Migrated # {}

\* The phase a request belongs to: 1 VLANs, 2 subnets, 3 addresses.
PhaseOf(c) ==
    CASE c.by = "addVLANs" -> 1
      [] c.by \in {"vlanIDForNumber", "ParentSubnetIDForCIDR", "addSubnets"} -> 2
      [] c.by \in {"subnetIDForCIDR", "addAddresses"} -> 3

\* C8: the requests are issued phase by phase: every create-VLAN request
\* comes before every request of the subnet phase (VLAN lookups, parent
\* probes, create-subnet), and those before every request of the address
\* phase (subnet lookups for addresses, create-address).
PhasesAreSequential ==
    \A i, j \in 1..Len(calls) : i < j => PhaseOf(calls[i]) <= PhaseOf(calls[j])

\* A completed run that made requests of all six kinds.
AllPhasesWitness ==
    /\ pc = "done"
    /\ {c.by : c \in Elems(calls)} =
          {"addVLANs", "vlanIDForNumber", "ParentSubnetIDForCIDR", "addSubnets",
           "subnetIDForCIDR", "addAddresses"}

\* Row i of the source addresses is an IPv4 address of an IPv4 subnet.
Convertible(i) ==
    /\ ~src.addresses[i].subnetNull
    /\ ~decimalIPAddrToString(src.addresses[i].ip_addr).err
    /\ ~decimalIPAddrToString(src.addresses[i].subnet).err

\* The subnets of the target whose CIDR is exactly the (subnet, mask) pair
\* of source address row i.
RecordedSubnets(i) ==
    {t \in Elems(tgt.subnets) :
        /\ t.SubnetAddress = decimalIPAddrToString(src.addresses[i].subnet).str
        /\ t.Mask = src.addresses[i].mask}

\* C9: every address created in the target comes from a source row and
\* carries the identifier of a target subnet whose CIDR is exactly the
\* (subnet, mask) pair of that row; and when the target has no subnet of that
\* CIDR for a row of IPv4 addresses, the run does not get past the lookup for
\* that row (it ends there in a fatal error) and no address is created.
AddressesReferToRecordedSubnet ==
    /\ \A a \in Elems(tgt.addresses) :
          \E i \in 1..Len(src.addresses) :
              /\ Convertible(i)
              /\ a.IPAddress = decimalIPAddrToString(src.addresses[i].ip_addr).str
              /\ \E t \in RecordedSubnets(i) : a.SubnetID = t.ID
    /\ \A i \in 1..Len(src.addresses) :
          Convertible(i) /\ RecordedSubnets(i) = {} =>
              /\ tgt.addresses = <<>>
              /\ pc \notin {"addAddresses", "done"}
              /\ pc = "scanAddresses" => idx <= i
              /\ (\E c \in Elems(calls) :
                     /\ c.by = "subnetIDForCIDR"
                     /\ c.key = SprintfCIDR(
                            decimalIPAddrToString(src.addresses[i].subnet).str,
                            src.addresses[i].mask))
                   => failed /\ pc = "exited"

\* An address was created in 10.64.0.0/12, which is not the first subnet of
\* the target.
AddressCreatedWitness ==
    /\ pc = "done"
    /\ \E a \in Elems(tgt.addresses) :
          /\ a.SubnetID > 1
          /\ \E t \in Elems(tgt.subnets) : t.ID = a.SubnetID /\ t.Mask = 12

\* The number of subnets the target held before the run; they come first.
PreCount == Len(SelectSeq(tgt.subnets, LAMBDA r : r.Description = "pre"))

\* The positions in subs of the narrowest registered ancestors of v.
NarrowestIn(subs, v) ==
    {k \in Ancestors(subs, v.SubnetAddress, v.Mask) :
        \A j \in Ancestors(subs, v.SubnetAddress, v.Mask) : subs[j].Mask <= subs[k].Mask}

\* C11 as claimed, its last sentence: a subnet whose narrowest ancestor in the
\* batch is ordered before it is created with that ancestor as its master.
InBatchAncestorIsMaster ==
    pc = "createSubnets" /\ ~failed =>
        \A k \in 1..(idx - 1) :
            \A m \in NarrowestIn(nets, nets[k]) :
                m < k =>
                    tgt.subnets[PreCount + k].MasterSubnetID = tgt.subnets[PreCount + m].ID

\* C11 as amended: while the subnets are created, the target holds the
\* subnets it had before followed by the subnets at the positions already
\* processed, in order; every subnet of the run has as master a narrowest
\* block (mask in [8, own mask - 1]) containing it among the subnets that
\* were in the target before it, and none if there is no such block; a subnet
\* whose narrowest ancestor in the batch is ordered before it gets a master
\* of the ancestor's mask or narrower, and the ancestor itself when the
\* target held no other block that narrow containing the subnet.
CommitThenQuery ==
    /\ pc = "createSubnets" /\ ~failed =>
          /\ Len(tgt.subnets) = PreCount + idx - 1
          /\ \A k \in 1..(idx - 1) :
                /\ Key(tgt.subnets[PreCount + k]) = Key(nets[k])
                /\ \A m \in NarrowestIn(nets, nets[k]) :
                      m < k =>
                          LET before == SubSeq(tgt.subnets, 1, PreCount + k - 1)
                              got == tgt.subnets[PreCount + k].MasterSubnetID
                          IN  /\ got # 0
                              /\ before[got].Mask >= nets[m].Mask
                              /\ NarrowestIn(before, nets[k]) = {PreCount + m}
                                    => got = tgt.subnets[PreCount + m].ID
    /\ \A j \in 1..Len(tgt.subnets) :
          tgt.subnets[j].Description # "pre" =>
              LET before == SubSeq(tgt.subnets, 1, j - 1)
                  nar == NarrowestIn(before, tgt.subnets[j])
              IN  IF nar = {} THEN tgt.subnets[j].MasterSubnetID = 0
                  ELSE \E k \in nar : tgt.subnets[j].MasterSubnetID = before[k].ID

\* Three subnets were created in a target that held one: the last has the
\* second of the run as master, which itself has a master.
CommitWitness ==
    /\ pc = "createSubnets"
    /\ ~failed
    /\ PreCount = 1
    /\ idx = 4
    /\ tgt.subnets[4].MasterSubnetID = 3
    /\ tgt.subnets[3].MasterSubnetID # 0

\* Source subnet row r is an IPv4 subnet.
IsIPv4Row(r) == ~decimalIPAddrToString(r.subnet).err

\* The key the subnet of source row r is ordered by.
SrcKey(r) == SprintfCIDR(decimalIPAddrToString(r.subnet).str, r.mask)

\* The positions in calls of the requests made by the functions in B.
CallsBy(B) == {j \in 1..Len(calls) : calls[j].by \in B}

\* C12 as claimed: a VLAN lookup is made for a subnet only after the subnets
\* ordered before that subnet have been created.
StepsArePerSubnet ==
    \A j \in CallsBy({"vlanIDForNumber"}) :
        \E r \in Elems(src.subnets) :
            /\ IsIPv4Row(r)
            /\ r.number.Int64 # 0
            /\ FormatInt(r.number.Int64) = calls[j].key
            /\ \A q \in Elems(src.subnets) :
                  IsIPv4Row(q) /\ StrLess(SrcKey(q), SrcKey(r)) =>
                      \E i \in CallsBy({"addSubnets"}) : i < j /\ calls[i].key = SrcKey(q)

\* The VLAN numbers looked up so far, in the order of the lookups.
LookedUp == SelectSeq(calls, LAMBDA c : c.by = "vlanIDForNumber")

\* The rows whose VLAN number is looked up, in the order they are read.
RowsWithVLAN == SelectSeq(src.subnets, LAMBDA r : IsIPv4Row(r) /\ r.number.Int64 # 0)

\* C12 as amended: the VLAN numbers are all resolved while the rows are read,
\* in row order, before the list is sorted and before any parent is resolved
\* or any subnet created, so that when a VLAN lookup fails no subnet of the
\* batch exists in the target; after that the list is in sorted order and,
\* for each subnet in that order, its parent is resolved and then it is
\* created before anything is done for the next subnet.
VlanLookupsPrecedeCreates ==
    /\ \A i \in CallsBy({"vlanIDForNumber"}) :
          \A j \in CallsBy({"ParentSubnetIDForCIDR", "addSubnets"}) : i < j
    /\ Len(LookedUp) <= Len(RowsWithVLAN)
    /\ \A k \in 1..Len(LookedUp) :
          LookedUp[k].key = FormatInt(RowsWithVLAN[k].number.Int64)
    /\ CallsBy({"ParentSubnetIDForCIDR", "addSubnets"}) = {} => Migrated = {}
    /\ CallsBy({"ParentSubnetIDForCIDR", "addSubnets"}) # {} =>
          /\ \A k \in 1..(Len(nets) - 1) : ~Less(nets[k + 1], nets[k])
          /\ \A j \in CallsBy({"ParentSubnetIDForCIDR", "addSubnets"}) :
                LET k == Cardinality({i \in CallsBy({"addSubnets"}) : i < j}) + 1
                IN  /\ k <= Len(nets)
                    /\ calls[j].by = "addSubnets" => calls[j].key = Key(nets[k])
                    /\ calls[j].by = "ParentSubnetIDForCIDR" =>
                          /\ ProbedMask(calls[j].key) < nets[k].Mask
                          /\ calls[j].key = ParseCIDR(SprintfCIDR(nets[k].SubnetAddress,
                                                       ProbedMask(calls[j].key))).str

\* The subnet on a VLAN is the last of three in sorted order but the first
\* row read: its VLAN was looked up before anything else, and all three
\* subnets were created afterwards.
LookupsFirstWitness ==
    /\ pc = "createSubnets"
    /\ ~failed
    /\ Len(nets) = 3
    /\ idx = 4
    /\ nets[3].VLANID # 0
    /\ src.subnets[1].number.Int64 # 0
    /\ calls[1].by \in {"addVLANs"}
    /\ calls[2].by = "vlanIDForNumber"

\* C13 as claimed: a subnet that has an ancestor in the batch ordered after
\* it is created with no master.
LateAncestorLeavesNoParent ==
    pc = "createSubnets" /\ ~failed =>
        \A k \in 1..(idx - 1) :
            (\E m \in Ancestors(nets, nets[k].SubnetAddress, nets[k].Mask) : m > k)
                => tgt.subnets[PreCount + k].MasterSubnetID = 0

\* Subnet j of the target was created by this run before subnet m of the
\* run, which contains it.
CreatedBeforeAncestor(j, m) ==
    /\ j < m
    /\ tgt.subnets[j].Description # "pre"
    /\ tgt.subnets[m] \in Containing(Elems(tgt.subnets), tgt.subnets[j])

\* A subnet created before an ancestor of the batch never has that ancestor
\* as master: its master is a block that was in the target before it, and it
\* has none exactly when no block containing it was there.
LateAncestorIsNotMaster ==
    \A j, m \in 1..Len(tgt.subnets) :
        CreatedBeforeAncestor(j, m) =>
            /\ tgt.subnets[j].MasterSubnetID # tgt.subnets[m].ID
            /\ tgt.subnets[j].MasterSubnetID < j
            /\ tgt.subnets[j].MasterSubnetID = 0 <=>
                  Ancestors(SubSeq(tgt.subnets, 1, j - 1),
                            tgt.subnets[j].SubnetAddress, tgt.subnets[j].Mask) = {}

\* C13 as amended: there is no repair pass.  A subnet whose ancestor in the
\* batch is ordered after it is created without that ancestor as master
\* (with the narrowest containing block the target held at that moment, with
\* no master when it held none), and no step of the run changes the master
\* of a subnet that exists in the target.
NoRepairPass ==
    /\ []LateAncestorIsNotMaster
    /\ [][\A j \in 1..Len(tgt.subnets) :
             /\ j <= Len(tgt'.subnets)
             /\ tgt'.subnets[j].MasterSubnetID = tgt.subnets[j].MasterSubnetID]_vars

\* The run on an empty target has completed: 10.0.0.0/10 was created first
\* and has no master, 10.0.0.0/8 was created after it.
OrphanWitness ==
    /\ pc = "done"
    /\ PreCount = 0
    /\ Len(tgt.subnets) >= 2
    /\ CreatedBeforeAncestor(1, 2)
    /\ tgt.subnets[1].MasterSubnetID = 0

\* The answer the target gave to the k-th lookup of the search.
Answer(k) == GetSubnetsByCIDR(arg.subs, res.probes[k].cidr, k = arg.faultAt)

\* C14: the search makes at most mask - 8 lookups, each for a mask one less
\* than the one before (no lookup is repeated); every lookup but the last
\* was answered "not found"; the search ends at a match, returning the
\* identifier of the first result, or at "not found" for the /8, returning 0,
\* or at any other error (the lookup that fails is the last one), where the
\* process is ended; and it is ended without a lookup exactly when the first
\* CIDR to look up does not parse.
LookupOutcomes ==
    pc = "resolved" =>
        LET L == Len(res.probes)
        IN  /\ L <= (IF arg.mask > 8 THEN arg.mask - 8 ELSE 0)
            /\ \A k \in 1..(L - 1) :
                  /\ Answer(k).err = ErrNotFound
                  /\ ProbedMask(res.probes[k + 1].cidr) = ProbedMask(res.probes[k].cidr) - 1
            /\ \A k \in 1..L : k = arg.faultAt => k = L /\ res.fatal /\ res.id = 0
            /\ L > 0 =>
                  CASE Answer(L).err = NoErr ->
                         ~res.fatal /\ res.id = Answer(L).out[1].ID
                    [] Answer(L).err = ErrNotFound ->
                         ~res.fatal /\ res.id = 0 /\ ProbedMask(res.probes[L].cidr) = 8
                    [] OTHER ->
                         res.fatal /\ res.id = 0
            /\ L = 0 =>
                  /\ res.id = 0
                  /\ res.fatal <=>
                        /\ arg.mask - 1 >= 8
                        /\ ParseCIDR(SprintfCIDR(arg.addr, arg.mask - 1)).err

\* The first lookup was answered "not found" and the second failed with
\* another error, although a block registered at a wider mask would have
\* matched: the search ended there, fatally.
LookupFaultWitness ==
    /\ pc = "resolved"
    /\ arg.faultAt = 2
    /\ Len(res.probes) = 2
    /\ res.fatal
    /\ Ancestors(arg.subs, arg.addr, arg.mask) # {}

\* The subnet rows are all read and their VLANs resolved.
SubnetsFetched ==
    pc \in {"addSubnets", "createSubnets", "fetchAddresses", "scanAddresses",
            "addAddresses", "done"}

\* With OnVLAN(r) telling that source row r references a VLAN: every subnet
\* created comes from a row; if the row references a VLAN, the subnet carries
\* the identifier of a VLAN of the target with that number, and else it
\* carries none; the lookups made are those of the rows referencing a VLAN,
\* one for each once the rows are read; and the run goes on to create
\* subnets only if the target has a VLAN of the number of each such row.
VlanAssociation(OnVLAN(_)) ==
    LET on == SelectSeq(src.subnets, LAMBDA r : IsIPv4Row(r) /\ OnVLAN(r))
    IN  /\ \A v \in Migrated :
              \E r \in Elems(src.subnets) :
                  /\ IsIPv4Row(r)
                  /\ SrcKey(r) = Key(v)
                  /\ IF OnVLAN(r)
                     THEN \E t \in Elems(tgt.vlans) :
                              t.Number = r.number.Int64 /\ t.ID = v.VLANID
                     ELSE v.VLANID = 0
        /\ Len(LookedUp) <= Len(on)
        /\ \A k \in 1..Len(LookedUp) : LookedUp[k].key = FormatInt(on[k].number.Int64)
        /\ SubnetsFetched =>
              /\ Len(LookedUp) = Len(on)
              /\ \A k \in 1..Len(on) :
                    \E t \in Elems(tgt.vlans) : t.Number = on[k].number.Int64

\* C15: the VLAN association of every subnet row whose joined VLAN number is
\* not NULL is migrated (lookup made, identifier carried, fatal when the
\* target has no VLAN of that number); a row without VLAN gives a subnet
\* without VLAN and no lookup.
VlanAssociationMigrated == VlanAssociation(LAMBDA r : r.number.Valid)

====
